---- MODULE Spec2Model ----
(***************************************************************************)
(* State-machine model of the diffusion engine of theo_DDPM.py: the cosine *)
(* variance schedule built at construction, DDPM.train, DDPM.sample and    *)
(* DDPM.reverse_diffusion.                                                 *)
(*                                                                         *)
(* Real values are fixed-point integers: the integer v stands for v/Scale. *)
(* A tensor of shape [B, 1, H, H] is a sequence of B pixel values (every   *)
(* operation of the engine is element-wise with one scalar per sample, so  *)
(* one pixel per sample carries the arithmetic) plus its height, counted   *)
(* separately.  A timestep batch is a sequence of B integers.  Schedule    *)
(* buffers are sequences; python index t is TLA+ index t + 1.              *)
(***************************************************************************)
EXTENDS Integers, Sequences, FiniteSets, TLC

(* ----------------------------- bounds --------------------------------- *)
\* fixed-point resolution: v stands for v / Scale
Scale == 1000
\* timesteps tried at construction: -NegT .. MaxT
MaxT == 12
NegT == 3
\* sample counts tried: -1 .. MaxAmount; batch sizes of train and of direct
\* reverse_diffusion calls: 1 .. MaxAmount
MaxAmount == 2
\* side length of the square images
ImageSize == 2

(* ------------------------ program constants --------------------------- *)
\* epsilon=0.008, in thousandths
EpsilonMilli == 8
\* upper clip bound 0.999 of the betas, in thousandths
ClipMaxMilli == 999
\* the slice images[::10]
TraceStride == 10
\* dtype=torch.float32: 24 significant bits
MantissaBits == 24

\* math.pi, in thousandths
PiMilli == 3142

Epsilon == (EpsilonMilli * Scale) \div 1000
ClipMax == (ClipMaxMilli * Scale) \div 1000
Pi == (PiMilli * Scale) \div 1000

(* --------------------------- arithmetic ------------------------------- *)
Min2(a, b) == IF a < b THEN a ELSE b

RECURSIVE IsqrtSearch(_, _, _)
IsqrtSearch(n, lo, hi) ==
    IF lo >= hi THEN lo
    ELSE LET mid == (lo + hi + 1) \div 2
         IN  IF mid * mid <= n THEN IsqrtSearch(n, mid, hi)
                               ELSE IsqrtSearch(n, lo, mid - 1)

\* torch.sqrt on a fixed-point value in [0, 4]
Sqrt(v) == IsqrtSearch(v * Scale, 0, 2 * Scale)

\* a * b and a / b on fixed-point values
Mul(a, b) == (a * b) \div Scale
Div(a, b) == (a * Scale) \div b

RECURSIVE CosTerms(_, _, _, _)
\* the Taylor terms x^(2k)/(2k)! of cos from term k on, alternating in sign
CosTerms(x2, term, k, last) ==
    IF k > last THEN 0
    ELSE LET next == (term * x2) \div ((2 * k - 1) * (2 * k) * Scale)
         IN  (IF k % 2 = 1 THEN -next ELSE next) + CosTerms(x2, next, k + 1, last)

\* torch.cos on a fixed-point angle in [0, pi/2]
Cos(x) == Scale + CosTerms(Mul(x, x), Scale, 1, 7)

\* torch.clip(v, lo, hi)
Clip(v, lo, hi) == IF v < lo THEN lo ELSE IF v > hi THEN hi ELSE v

RECURSIVE Pow2(_)
Pow2(n) == IF n = 0 THEN 1 ELSE 2 * Pow2(n - 1)

RECURSIVE Float32Spacing(_, _)
\* the gap between neighbouring float32 values at the magnitude of i >= 0
Float32Spacing(i, q) ==
    IF i < q * Pow2(MantissaBits) THEN q ELSE Float32Spacing(i, 2 * q)

\* a non-negative integer rounded to float32 (nearest, ties to even mantissa)
Float32(i) ==
    LET q == Float32Spacing(i, 1)
        r == i % q
        base == i - r
    IN  IF 2 * r < q THEN base
        ELSE IF 2 * r > q THEN base + q
        ELSE IF (base \div q) % 2 = 0 THEN base ELSE base + q

(* ---------------------- _cosine_variance_schedule --------------------- *)
\* steps = torch.linspace(0, timesteps, steps=timesteps + 1, dtype=float32):
\* entry i is the float32 nearest to i
LinspaceAt(T, i) == Float32(i)

\* steps / timesteps as a fixed-point value (the quotient is formed without
\* leaving the integer range for large timesteps)
StepFraction(s, T) ==
    IF T <= Pow2(20) THEN (s * Scale) \div T ELSE s \div (T \div Scale)

\* f_t = cos(((steps / timesteps + epsilon) / (1 + epsilon)) * pi * 0.5) ** 2,
\* as a function of the float32 entry s of steps
FOfStep(s, T) ==
    LET u == Div(StepFraction(s, T) + Epsilon, Scale + Epsilon)
        c == Cos(Mul(u, Pi) \div 2)
    IN  Mul(c, c)

F_t(T, i) == FOfStep(LinspaceAt(T, i), T)

\* one entry of betas = torch.clip(1.0 - f_t[1:] / f_t[:timesteps], 0.0, 0.999),
\* from the two entries f0 = f_t[t] and f1 = f_t[t + 1]
BetaOf(f0, f1) == Clip(Scale - Div(f1, f0), 0, ClipMax)

BetaAt(T, t) == BetaOf(F_t(T, t), F_t(T, t + 1))

\* torch.linspace raises for a negative number of steps
LinspaceRaises(T) == T + 1 < 0

\* the betas buffer: empty for timesteps 0 (steps = [0], both slices empty)
\* and for timesteps -1 (steps empty)
CosineVarianceSchedule(T) ==
    IF T <= 0 THEN << >> ELSE [k \in 1..T |-> BetaAt(T, k - 1)]

RECURSIVE CumProd(_)
\* Tensor.cumprod(dim=-1)
CumProd(s) ==
    IF Len(s) = 0 THEN << >>
    ELSE IF Len(s) = 1 THEN s
    ELSE LET p == CumProd(SubSeq(s, 1, Len(s) - 1))
         IN  Append(p, Mul(p[Len(p)], s[Len(s)]))


(* ------------------------------ state --------------------------------- *)
VARIABLES
    pc,             \* "new", "failed" (construction raised), "idle",
                    \* "sampling" (inside the loop of sample), "done" (a call
                    \* has returned or raised and its result is in ret)
    timesteps,      \* self.timesteps
    image_size,     \* self.image_size
    betas,          \* the registered buffers
    alphas,
    alphas_cumprod,
    sqrt_alphas_cumprod,
    sqrt_one_minus_alphas_cumprod,
    op,             \* the call in progress or just finished
    amount,         \* sample: its arguments
    whole_process,
    t,              \* sample: the loop variable
    drawn,          \* sample: the initial torch.randn draw
    image,          \* sample: the current image
    images,         \* sample: the list images
    calls,          \* the timestep batches reverse_diffusion was invoked with
    denoiserCalls,  \* the number of self.model(...) invocations of the call
    lookups,        \* the indices the call gathered from the buffers
    rd,             \* the last direct reverse_diffusion call
    ret,            \* the result of the call
    probe           \* one entry of the schedule computation, followed alone

schedule ==
    <<betas, alphas, alphas_cumprod, sqrt_alphas_cumprod,
      sqrt_one_minus_alphas_cumprod>>

engine == <<timesteps, image_size, schedule>>

sampleVars == <<amount, whole_process, t, drawn, image, images>>

vars ==
    <<pc, engine, op, sampleVars, calls, denoiserCalls, lookups, rd, ret, probe>>

NoResult == [kind |-> "none", frames |-> << >>, height |-> 0, loss |-> 0]
Raised == [kind |-> "error", frames |-> << >>, height |-> 0, loss |-> 0]
NoProbe == [steps |-> << >>, f_t |-> << >>, beta |-> 0]
NoCall == [x_t |-> << >>, t |-> << >>, noise |-> << >>, mean |-> << >>,
           std |-> << >>, out |-> << >>]

\* the tensors torch.randn / torch.randn_like may draw for a batch of B
Randn(B) ==
    { [i \in 1..B |-> Scale],
      [i \in 1..B |-> IF i % 2 = 1 THEN -Scale ELSE Scale] }

\* the clean image batches handed to train
CleanImages(B) ==
    { [i \in 1..B |-> Scale \div 2],
      [i \in 1..B |-> IF i % 2 = 1 THEN -Scale ELSE 0] }

\* the timestep batches with entries in [0, T)
TimestepBatches(B, T) == [1..B -> 0..(T - 1)]

Init ==
    /\ pc = "new"
    /\ timesteps = 0
    /\ image_size = 0
    /\ betas = << >>
    /\ alphas = << >>
    /\ alphas_cumprod = << >>
    /\ sqrt_alphas_cumprod = << >>
    /\ sqrt_one_minus_alphas_cumprod = << >>
    /\ op = "none"
    /\ amount = 0
    /\ whole_process = FALSE
    /\ t = 0
    /\ drawn = << >>
    /\ image = << >>
    /\ images = << >>
    /\ calls = << >>
    /\ denoiserCalls = 0
    /\ lookups = {}
    /\ rd = NoCall
    /\ ret = NoResult
    /\ probe = NoProbe

(* --------------------------- DDPM.__init__ ---------------------------- *)
Construct(T) ==
    /\ pc = "new"
    /\ timesteps' = T
    /\ image_size' = ImageSize
    /\ op' = "construct"
    /\ IF LinspaceRaises(T)
       THEN /\ pc' = "failed"
            /\ ret' = Raised
            /\ UNCHANGED schedule
       ELSE LET b == CosineVarianceSchedule(T)
                a == [k \in DOMAIN b |-> Scale - b[k]]
                c == CumProd(a)
            IN  /\ betas' = b
                /\ alphas' = a
                /\ alphas_cumprod' = c
                /\ sqrt_alphas_cumprod' = [k \in DOMAIN c |-> Sqrt(c[k])]
                /\ sqrt_one_minus_alphas_cumprod' =
                       [k \in DOMAIN c |-> Sqrt(Scale - c[k])]
                /\ pc' = "idle"
                /\ ret' = NoResult
    /\ UNCHANGED <<sampleVars, calls, denoiserCalls, lookups, rd, probe>>

(* ----------------------------- Denoiser ------------------------------- *)
\* self.model(x, t.unsqueeze(1).float()): a deterministic map from an image
\* batch and a timestep batch to a noise batch of the same shape
Denoiser(x, tt) == [i \in DOMAIN x |-> x[i] - (x[i] \div (tt[i] + 2))]

(* ------------------------ DDPM.reverse_diffusion ---------------------- *)
\* buf.gather(-1, idx) for one index; an index outside the buffer is
\* rejected by torch.gather, and the callers below raise on it
Gather(buf, idx) == IF idx + 1 \in DOMAIN buf THEN buf[idx + 1] ELSE Scale

InRange(idx) == idx + 1 \in DOMAIN betas

RECURSIVE MinOf(_)
\* t.min() of a non-empty batch
MinOf(tt) ==
    IF Len(tt) = 1 THEN tt[1] ELSE Min2(tt[Len(tt)], MinOf(SubSeq(tt, 1, Len(tt) - 1)))

\* mean = (1.0 / torch.sqrt(alpha_t)) *
\*        (x_t - ((1.0 - alpha_t) / sqrt_one_minus_alpha_cumprod_t) * pred)
PosteriorMean(x_t, tt, pred) ==
    [i \in DOMAIN x_t |->
        LET alpha_t == Gather(alphas, tt[i])
            som_t == Gather(sqrt_one_minus_alphas_cumprod, tt[i])
        IN  Mul(Div(Scale, Sqrt(alpha_t)),
                x_t[i] - Mul(Div(Scale - alpha_t, som_t), pred[i]))]

\* if t.min() > 0:
UsesPrev_nonneg(tt) == MinOf(tt) >= 0
UsesPrev(tt) == MinOf(tt) > 0

\* std = torch.sqrt(beta_t * (1.0 - alpha_t_cumprod_prev) / (1.0 - alpha_t_cumprod))
StdAt(ti) ==
    Sqrt(Div(Mul(Gather(betas, ti), Scale - Gather(alphas_cumprod, ti - 1)),
             Scale - Gather(alphas_cumprod, ti)))

\* else: std = 0.0
StdTerminal_one == Scale
StdTerminal == 0

\* the std applied to each sample of the batch
Std(tt) ==
    [i \in DOMAIN tt |-> IF UsesPrev(tt) THEN StdAt(tt[i]) ELSE StdTerminal]

\* the indices gathered by one reverse_diffusion call
Lookups(tt) ==
    {tt[i] : i \in DOMAIN tt}
        \cup (IF UsesPrev(tt) THEN {tt[i] - 1 : i \in DOMAIN tt} ELSE {})

\* return mean + std * noise
ReverseDiffusion(x_t, tt, noise) ==
    LET mean == PosteriorMean(x_t, tt, Denoiser(x_t, tt))
        std == Std(tt)
    IN  [i \in DOMAIN x_t |-> mean[i] + Mul(std[i], noise[i])]

\* a call of reverse_diffusion from outside sample, on a batch of B >= 1
\* images with timesteps in [0, T)
ReverseDiffusionCall(B, x_t, tt, noise) ==
    /\ pc = "idle"
    /\ timesteps >= 1
    /\ op' = "reverse_diffusion"
    /\ calls' = <<tt>>
    /\ denoiserCalls' = 1
    /\ lookups' = Lookups(tt)
    /\ rd' = [x_t |-> x_t, t |-> tt, noise |-> noise,
              mean |-> PosteriorMean(x_t, tt, Denoiser(x_t, tt)),
              std |-> Std(tt),
              out |-> ReverseDiffusion(x_t, tt, noise)]
    /\ ret' = IF \A idx \in Lookups(tt) : InRange(idx)
              THEN [kind |-> "tensor",
                    frames |-> <<ReverseDiffusion(x_t, tt, noise)>>,
                    height |-> image_size, loss |-> 0]
              ELSE Raised
    /\ pc' = "done"
    /\ UNCHANGED <<engine, sampleVars, probe>>

(* ----------------------------- DDPM.train ----------------------------- *)
\* torch.randint(0, self.timesteps, ...) raises unless 0 < self.timesteps
RandintRaises == timesteps <= 0

\* noisy = image_scale * clean_image + noise_scale * noise
Noisy(x0, tt, noise) ==
    [i \in DOMAIN x0 |->
        Mul(Gather(sqrt_alphas_cumprod, tt[i]), x0[i])
            + Mul(Gather(sqrt_one_minus_alphas_cumprod, tt[i]), noise[i])]

RECURSIVE SumSeq(_)
SumSeq(s) == IF Len(s) = 0 THEN 0 ELSE s[Len(s)] + SumSeq(SubSeq(s, 1, Len(s) - 1))

\* torch.mean((pred_noise - noise) ** 2)
Mse(pred, noise) ==
    SumSeq([i \in DOMAIN pred |-> Mul(pred[i] - noise[i], pred[i] - noise[i])])
        \div Len(pred)

\* what train leaves of the engine: it assigns no attribute and no buffer
TrainFrame_inplace ==
    /\ sqrt_alphas_cumprod' = [k \in DOMAIN sqrt_alphas_cumprod |-> 0]
    /\ UNCHANGED <<timesteps, image_size, betas, alphas, alphas_cumprod,
                   sqrt_one_minus_alphas_cumprod>>
TrainFrame == UNCHANGED engine

TrainRaises ==
    /\ pc = "idle"
    /\ RandintRaises
    /\ op' = "train"
    /\ calls' = << >>
    /\ denoiserCalls' = 0
    /\ lookups' = {}
    /\ rd' = NoCall
    /\ ret' = Raised
    /\ pc' = "done"
    /\ TrainFrame
    /\ UNCHANGED <<sampleVars, probe>>

Train(B, x0, noise, tt) ==
    /\ pc = "idle"
    /\ ~RandintRaises
    /\ op' = "train"
    /\ calls' = << >>
    /\ denoiserCalls' = 1
    /\ lookups' = {tt[i] : i \in DOMAIN tt}
    /\ rd' = NoCall
    /\ ret' = [kind |-> "loss", frames |-> << >>, height |-> 0,
               loss |-> Mse(Denoiser(Noisy(x0, tt, noise), tt), noise)]
    /\ pc' = "done"
    /\ TrainFrame
    /\ UNCHANGED <<sampleVars, probe>>

(* ----------------------------- DDPM.sample ---------------------------- *)
\* torch.randn((amount, 1, H, H)) raises for a negative dimension
RandnRaises(a) == a < 0

SampleRejected(a, wp) ==
    /\ pc = "idle"
    /\ RandnRaises(a)
    /\ op' = "sample"
    /\ amount' = a
    /\ whole_process' = wp
    /\ calls' = << >>
    /\ denoiserCalls' = 0
    /\ lookups' = {}
    /\ rd' = NoCall
    /\ ret' = Raised
    /\ pc' = "done"
    /\ UNCHANGED <<engine, t, drawn, image, images, probe>>

\* image = torch.randn(...); images = []; the loop variable starts at
\* self.timesteps - 1
SampleBegin(a, wp, x) ==
    /\ pc = "idle"
    /\ ~RandnRaises(a)
    /\ op' = "sample"
    /\ amount' = a
    /\ whole_process' = wp
    /\ drawn' = x
    /\ image' = x
    /\ images' = << >>
    /\ t' = timesteps - 1
    /\ calls' = << >>
    /\ denoiserCalls' = 0
    /\ lookups' = {}
    /\ rd' = NoCall
    /\ ret' = NoResult
    /\ pc' = "sampling"
    /\ UNCHANGED <<engine, probe>>

\* for t in range(self.timesteps - 1, 0, -1)
LoopContinues_to_zero(k) == k >= 0
LoopContinues(k) == k > 0

\* images.append(image)
Record(trace, old, new) == Append(trace, old)

\* one iteration on a non-empty batch
SampleStep(noise) ==
    /\ pc = "sampling"
    /\ LoopContinues(t)
    /\ amount > 0
    /\ LET step == [i \in 1..amount |-> t]
           next == ReverseDiffusion(image, step, noise)
       IN  /\ images' = Record(images, image, next)
           /\ calls' = Append(calls, step)
           /\ denoiserCalls' = denoiserCalls + 1
           /\ lookups' = lookups \cup Lookups(step)
           /\ IF \A idx \in Lookups(step) : InRange(idx)
              THEN /\ image' = next
                   /\ t' = t - 1
                   /\ pc' = "sampling"
                   /\ ret' = NoResult
              ELSE /\ pc' = "done"
                   /\ ret' = Raised
                   /\ UNCHANGED <<image, t>>
    /\ UNCHANGED <<engine, op, amount, whole_process, drawn, rd, probe>>

\* one iteration on an empty batch (amount = 0): the Denoiser is invoked on
\* the empty batch and t.min() of the empty step tensor raises
SampleStepEmpty ==
    /\ pc = "sampling"
    /\ LoopContinues(t)
    /\ amount = 0
    /\ images' = Record(images, image, image)
    /\ calls' = Append(calls, << >>)
    /\ denoiserCalls' = denoiserCalls + 1
    /\ pc' = "done"
    /\ ret' = Raised
    /\ UNCHANGED <<engine, op, amount, whole_process, t, drawn, image, lookups,
                   rd, probe>>

CeilDiv(a, b) == (a + b - 1) \div b

\* images[::10]
Strided(s) == [j \in 1..CeilDiv(Len(s), TraceStride) |-> s[(j - 1) * TraceStride + 1]]

\* torch.cat(frames, dim=2) raises on an empty list
CatRaises(frames) == Len(frames) = 0

SampleReturn ==
    /\ pc = "sampling"
    /\ ~LoopContinues(t)
    /\ ret' = IF whole_process
              THEN IF CatRaises(Strided(images)) THEN Raised
                   ELSE [kind |-> "tensor", frames |-> Strided(images),
                         height |-> Len(Strided(images)) * image_size, loss |-> 0]
              ELSE [kind |-> "tensor", frames |-> <<image>>,
                    height |-> image_size, loss |-> 0]
    /\ pc' = "done"
    /\ UNCHANGED <<engine, op, sampleVars, calls, denoiserCalls, lookups, rd, probe>>

(* ------------------------------ caller -------------------------------- *)
\* the caller takes the result; the transient tensors of the call are dropped
Return ==
    /\ pc = "done"
    /\ pc' = "idle"
    /\ op' = "none"
    /\ amount' = 0
    /\ whole_process' = FALSE
    /\ t' = 0
    /\ drawn' = << >>
    /\ image' = << >>
    /\ images' = << >>
    /\ calls' = << >>
    /\ denoiserCalls' = 0
    /\ lookups' = {}
    /\ rd' = NoCall
    /\ ret' = NoResult
    /\ UNCHANGED <<engine, probe>>

Next ==
    \/ \E T \in (0 - NegT)..MaxT : Construct(T)
    \/ TrainRaises
    \/ /\ pc = "idle"
       /\ \E B \in 1..MaxAmount :
            \E x0 \in CleanImages(B), noise \in Randn(B),
               tt \in TimestepBatches(B, timesteps) : Train(B, x0, noise, tt)
    \/ \E a \in (0 - 1)..MaxAmount, wp \in BOOLEAN : SampleRejected(a, wp)
    \/ \E a \in 0..MaxAmount, wp \in BOOLEAN :
         \E x \in Randn(a) : SampleBegin(a, wp, x)
    \/ /\ pc = "sampling"
       /\ \E noise \in Randn(amount) : SampleStep(noise)
    \/ SampleStepEmpty
    \/ SampleReturn
    \/ /\ pc = "idle"
       /\ \E B \in 1..MaxAmount :
            \E x_t \in Randn(B), noise \in Randn(B),
               tt \in TimestepBatches(B, timesteps) :
                 ReverseDiffusionCall(B, x_t, tt, noise)
    \/ Return

Spec == Init /\ [][Next]_vars

(* ------------- the schedule computation, one entry at a time ---------- *)
\* the largest timesteps followed entry by entry, and the number of entries
\* on each side of index 2^MantissaBits looked at for it
BigT == Pow2(MantissaBits + 1)
Window == 2

\* the pairs (timesteps, t) followed: every entry of the small schedules,
\* and for BigT the entries whose two neighbouring linspace values are the
\* same float32, where the fixed-point f_t entries agree exactly when the
\* float32 ones do
Probes ==
    {p \in (1..MaxT) \X (0..(MaxT - 1)) : p[2] < p[1]}
    \cup {<<BigT, i>> : i \in
            {j \in (Pow2(MantissaBits) - Window)..(Pow2(MantissaBits) + Window) :
                LinspaceAt(BigT, j) = LinspaceAt(BigT, j + 1)}}

\* steps and f_t at indices i and i + 1
ProbeLinspace(T, i) ==
    /\ pc = "new"
    /\ ~LinspaceRaises(T)
    /\ timesteps' = T
    /\ t' = i
    /\ probe' = [steps |-> <<LinspaceAt(T, i), LinspaceAt(T, i + 1)>>,
                 f_t |-> <<F_t(T, i), F_t(T, i + 1)>>,
                 beta |-> 0]
    /\ pc' = "f_t"
    /\ UNCHANGED <<image_size, schedule, op, amount, whole_process, drawn, image,
                   images, calls, denoiserCalls, lookups, rd, ret>>

\* betas[t]
ProbeClip ==
    /\ pc = "f_t"
    /\ probe' = [probe EXCEPT !.beta = BetaOf(probe.f_t[1], probe.f_t[2])]
    /\ pc' = "betas"
    /\ UNCHANGED <<engine, op, sampleVars, calls, denoiserCalls, lookups, rd, ret>>

SchedNext ==
    \/ \E p \in Probes : ProbeLinspace(p[1], p[2])
    \/ ProbeClip

SchedSpec == Init /\ [][SchedNext]_vars

(* ---------------------------- properties ------------------------------ *)
AllZero(tt) == \A i \in DOMAIN tt : tt[i] = 0

SampleCall == op = "sample" /\ pc \in {"sampling", "done"}

DirectCall == op = "reverse_diffusion" /\ pc = "done"

\* C1: for timesteps >= 1 and amount >= 1, sample invokes reverse_diffusion
\* with the batch-wide timesteps T-1, T-2, ..., 1 in this order, each once and
\* the same for every batch element, never with 0, T-1 times in all when it
\* finishes, and the Denoiser is invoked once per reverse step.
C1_SampleSteps ==
    (SampleCall /\ timesteps >= 1 /\ amount >= 1) =>
        /\ calls = [k \in 1..Len(calls) |-> [i \in 1..amount |-> timesteps - k]]
        /\ Len(calls) = timesteps - 1 - t
        /\ \A k \in DOMAIN calls : \A i \in DOMAIN calls[k] : calls[k][i] # 0
        /\ denoiserCalls = Len(calls)
        /\ (pc = "done" => Len(calls) = timesteps - 1)

C1_Witness ==
    /\ SampleCall /\ pc = "done"
    /\ timesteps >= 3 /\ amount >= 2
    /\ Len(calls) = timesteps - 1
    /\ calls[Len(calls)] = [i \in 1..amount |-> 1]

\* C2: for timesteps >= 1 and amount >= 1, sample(amount, True) returns a
\* tensor of exactly ceil((T-1)/10) frames stacked along the height, of height
\* ceil((T-1)/10) * image_size, also when T-1 is 0 or no multiple of 10.
C2_WholeProcessFrames ==
    (SampleCall /\ pc = "done" /\ whole_process /\ timesteps >= 1 /\ amount >= 1) =>
        /\ ret.kind = "tensor"
        /\ Len(ret.frames) = CeilDiv(timesteps - 1, TraceStride)
        /\ ret.height = CeilDiv(timesteps - 1, TraceStride) * image_size

\* C3: reverse_diffusion on an all-zero timestep batch uses std = 0: its
\* output is the posterior mean, and every other noise draw on the same x_t
\* and t gives the same output.
C3_TerminalDeterminism ==
    (DirectCall /\ AllZero(rd.t)) =>
        /\ \A i \in DOMAIN rd.std : rd.std[i] = 0
        /\ rd.out = rd.mean
        /\ \A other \in Randn(Len(rd.x_t)) :
              ReverseDiffusion(rd.x_t, rd.t, other) = rd.out

C3_Witness ==
    /\ DirectCall /\ AllZero(rd.t)
    /\ Len(rd.t) >= 2 /\ timesteps >= 2
    /\ \E other \in Randn(Len(rd.x_t)) : other # rd.noise
    /\ ret.kind = "tensor"

\* C4: the std reverse_diffusion applies to sample i depends on t[i] alone:
\* the posterior std of t[i] when t[i] > 0 and 0 when t[i] = 0, whatever the
\* timesteps of the other samples of the batch.
C4_PerSampleStd ==
    DirectCall =>
        \A i \in DOMAIN rd.t :
            rd.std[i] = IF rd.t[i] > 0 THEN StdAt(rd.t[i]) ELSE 0

\* C5: construction with timesteps <= 0 fails; no engine is produced.
C5_NonPositiveTimestepsRejected ==
    (pc # "new" /\ timesteps <= 0) => pc = "failed"

\* C6: sample with amount <= 0 (on an engine with timesteps >= 1) is rejected
\* at call entry: it ends raising, having performed no reverse step and no
\* Denoiser call, and returns no tensor.
C6_NonPositiveAmountRejected ==
    (SampleCall /\ pc = "done" /\ amount <= 0 /\ timesteps >= 1) =>
        /\ ret.kind = "error"
        /\ calls = << >>
        /\ denoiserCalls = 0

\* C7: for timesteps >= 1 every beta_t is strictly positive, every alpha_t
\* strictly below 1, and the running product alpha_cumprod strictly decreases
\* at every step.
C7_StrictlyDecreasing ==
    (pc = "betas" /\ timesteps >= 1) =>
        /\ probe.beta > 0
        /\ Scale - probe.beta < Scale
        /\ Mul(Scale \div 2, Scale - probe.beta) < Scale \div 2

\* C8: once constructed, the attributes and buffers of the engine never
\* change, whatever calls follow; a train call that returns a loss has
\* invoked the Denoiser exactly once.
C8_ScheduleImmutable ==
    [][/\ pc \notin {"new"} => engine' = engine
       /\ (op' = "train" /\ ret'.kind = "loss") => denoiserCalls' = 1]_vars

C8_Witness ==
    /\ pc = "done" /\ op = "train" /\ ret.kind = "loss"
    /\ Len(betas) >= 2
    /\ \E k \in DOMAIN sqrt_alphas_cumprod : sqrt_alphas_cumprod[k] > 0

\* C9: after the loop of sample the trace runs from the initial noise draw
\* (its first frame) to the final denoised image that final-only mode returns
\* (its last frame).
C9_TraceEndsAtFinalImage ==
    (SampleCall /\ pc = "done" /\ amount >= 1 /\ timesteps >= 2) =>
        /\ images[1] = drawn
        /\ images[Len(images)] = image

\* C10: every index gathered from the schedule lies in [0, T): the timesteps
\* train samples, the timesteps 1 .. T-1 of the reverse steps of sample, and
\* the previous-step indices t[i] - 1, which are never negative.
C10_LookupsInRange ==
    /\ \A idx \in lookups : 0 <= idx /\ idx < timesteps
    /\ SampleCall =>
          \A k \in DOMAIN calls : \A i \in DOMAIN calls[k] :
              1 <= calls[k][i] /\ calls[k][i] <= timesteps - 1

C10_Witness ==
    /\ SampleCall /\ pc = "done" /\ ret.kind = "tensor"
    /\ timesteps >= 3
    /\ 0 \in lookups /\ (timesteps - 1) \in lookups

====
